---- MODULE Spec2Model ----
(***************************************************************************)
(* Model of pycg/obj.py: the ObjFile session over Wavefront-OBJ text, its  *)
(* parser (_parse_objs) and its serializer (_dump_objs).                   *)
(*                                                                         *)
(* Text is modelled at the level the code handles it.  A Python string is  *)
(* a sequence of symbols; a symbol is a decimal digit, "-", ".", a blank   *)
(* " ", or an alphabetic run that the code never looks inside ("mtllib",   *)
(* "a").  A file is a sequence of lines (strings without the newline).     *)
(* Floats are the decimal numbers with one fractional digit and are held   *)
(* as their number of tenths (1.5 is 15).                                  *)
(***************************************************************************)
EXTENDS Integers, Sequences, FiniteSets, TLC

(***************************************************************************)
(* Bounds of the model.                                                    *)
(***************************************************************************)
MaxObjs == 2        \* calls of write() that append, in one run
MaxPts == 3         \* points of a Wireframe handed to write()
MaxLines == 10

\* lines of a stream fed to the parser line by line
MaxStream == 4      \* lines of a file that is opened for reading

(***************************************************************************)
(* Strings, numbers and their textual forms.                               *)
(***************************************************************************)
DigitChars == <<"0", "1", "2", "3", "4", "5", "6", "7", "8", "9">>

IsDigit(c) == \E d \in 1..10 : DigitChars[d] = c

DigitVal(c) == (CHOOSE d \in 1..10 : DigitChars[d] = c) - 1

Abs(n) == IF n < 0 THEN -n ELSE n

RECURSIVE StrNat(_)
StrNat(n) ==
    IF n < 10 THEN <<DigitChars[n + 1]>>
    ELSE StrNat(n \div 10) \o <<DigitChars[(n % 10) + 1]>>

\* str(v) / f"{v}" of a Python int
StrInt(n) == IF n < 0 THEN <<"-">> \o StrNat(-n) ELSE StrNat(n)

\* f"{x}" of a Python float holding t tenths: "1.5", "-1.0", "0.0"
FmtFloat(t) ==
    (IF t < 0 THEN <<"-">> ELSE <<>>)
        \o StrNat(Abs(t) \div 10) \o <<".">> \o <<DigitChars[(Abs(t) % 10) + 1]>>

RECURSIVE DigitsVal(_, _)
DigitsVal(w, acc) ==
    IF w = <<>> THEN acc ELSE DigitsVal(Tail(w), 10 * acc + DigitVal(Head(w)))

AllDigits(w) == \A i \in 1..Len(w) : IsDigit(w[i])

HasSign(w) == w # <<>> /\ Head(w) \in {"-", "+"}

Unsigned(w) == IF HasSign(w) THEN Tail(w) ELSE w

Signed(w, n) == IF w # <<>> /\ Head(w) = "-" THEN -n ELSE n

\* int(word): [ok, v]; not ok is Python's ValueError
PyInt(w) ==
    LET u == Unsigned(w)
    IN  IF u # <<>> /\ AllDigits(u)
        THEN [ok |-> TRUE, v |-> Signed(w, DigitsVal(u, 0))]
        ELSE [ok |-> FALSE, v |-> 0]

DotAt(u) == IF \E i \in 1..Len(u) : u[i] = "."
            THEN CHOOSE i \in 1..Len(u) : u[i] = "." /\ \A j \in 1..(i - 1) : u[j] # "."
            ELSE 0

\* float(word) in tenths: [ok, v]; not ok is Python's ValueError.  Words
\* with more than one fractional digit are outside the value domain.
PyFloat(w) ==
    LET u == Unsigned(w)
        d == DotAt(u)
        ip == IF d = 0 THEN u ELSE SubSeq(u, 1, d - 1)
        fp == IF d = 0 THEN <<>> ELSE SubSeq(u, d + 1, Len(u))
    IN  IF /\ AllDigits(ip) /\ AllDigits(fp)
           /\ Len(ip) + Len(fp) > 0
           /\ Len(fp) <= 1
        THEN [ok |-> TRUE,
              v |-> Signed(w, 10 * DigitsVal(ip, 0) + DigitsVal(fp, 0))]
        ELSE [ok |-> FALSE, v |-> 0]

\* line.strip().split(): the maximal blank-free runs of the line
RECURSIVE SplitFrom(_, _, _, _)
SplitFrom(s, i, cur, acc) ==
    IF i > Len(s)
    THEN IF cur = <<>> THEN acc ELSE Append(acc, cur)
    ELSE IF s[i] = " "
         THEN SplitFrom(s, i + 1, <<>>, IF cur = <<>> THEN acc ELSE Append(acc, cur))
         ELSE SplitFrom(s, i + 1, Append(cur, s[i]), acc)

Split(s) == SplitFrom(s, 1, <<>>, <<>>)

\* " ".join(words)
RECURSIVE JoinSp(_)
JoinSp(ws) ==
    IF ws = <<>> THEN <<>>
    ELSE IF Len(ws) = 1 THEN ws[1]
    ELSE ws[1] \o <<" ">> \o JoinSp(Tail(ws))

\* Python list indexing lst[i]: the TLA+ sequence holds Python index k at
\* position k + 1; a negative index counts from the end.
PyInRange(lst, i) == -Len(lst) <= i /\ i < Len(lst)

PyGet(lst, i) == IF i < 0 THEN lst[Len(lst) + i + 1] ELSE lst[i + 1]

(***************************************************************************)
(* Python values held in attribute and global dictionaries.  A dictionary  *)
(* is the sequence of its items in insertion order.                        *)
(***************************************************************************)
VStr(s) == [t |-> "str", s |-> s, l |-> <<>>, c |-> <<>>]

VList(l) == [t |-> "list", s |-> <<>>, l |-> l, c |-> <<>>]

\* Color(r, g, b)
VColor(c) == [t |-> "color", s |-> <<>>, l |-> <<>>, c |-> c]

\* a Python int used as an attribute value
VInt(n) == [t |-> "int", s |-> <<>>, l |-> <<>>, c |-> <<n>>]

DictHas(d, k) == \E i \in 1..Len(d) : d[i].k = k

DictGet(d, k) == d[CHOOSE i \in 1..Len(d) : d[i].k = k].v

\* d[k] = v
DictSet(d, k, v) ==
    IF DictHas(d, k)
    THEN [i \in 1..Len(d) |-> IF d[i].k = k THEN [k |-> k, v |-> v] ELSE d[i]]
    ELSE Append(d, [k |-> k, v |-> v])

K_name == <<"name">>
K_usemtl == <<"usemtl">>
K_color == <<"color">>
K_mtllib == <<"mtllib">>

\* the vertex table's slot 0
NoneVertex == <<>>

_ObjDescriptor(name, attributes) ==
    [kind |-> "none",
     vertex_indexes |-> <<>>,
     attributes |-> DictSet(attributes, K_name, VStr(name))]

(***************************************************************************)
(* The files of the model: the primary file "scene.obj" (variable disk)    *)
(* and the material library "m.mtl" next to it, which is never written.    *)
(***************************************************************************)
FileBase == <<"scene">>

LibName == <<"m.mtl">>

W(s) == <<s>>

LibContent ==
    << JoinSp(<<W("newmtl"), W("red")>>),
       JoinSp(<<W("Kd"), FmtFloat(10), FmtFloat(0), FmtFloat(0)>>),
       JoinSp(<<W("newmtl"), W("grey")>>),
       JoinSp(<<W("Kd"), FmtFloat(5), FmtFloat(5), FmtFloat(5)>>) >>

LibExists(libname) == libname = LibName

(***************************************************************************)
(* _parse_objs                                                             *)
(***************************************************************************)
Fail(st, e) == [st EXCEPT !.err = e]

ChannelMut(t) == (t * 256) \div 10

\* int(float(x) * 0xFF) for x of t tenths
Channel(t) == IF t < 0 THEN -(((-t) * 255) \div 10) ELSE (t * 255) \div 10

RECURSIVE Floats(_)
Floats(ws) ==
    IF ws = <<>> THEN [ok |-> TRUE, vs |-> <<>>]
    ELSE LET f == PyFloat(Head(ws))
             r == Floats(Tail(ws))
         IN  IF f.ok /\ r.ok THEN [ok |-> TRUE, vs |-> <<f.v>> \o r.vs]
             ELSE [ok |-> FALSE, vs |-> <<>>]

RECURSIVE Ints(_)
Ints(ws) ==
    IF ws = <<>> THEN [ok |-> TRUE, vs |-> <<>>]
    ELSE LET f == PyInt(Head(ws))
             r == Ints(Tail(ws))
         IN  IF f.ok /\ r.ok THEN [ok |-> TRUE, vs |-> <<f.v>> \o r.vs]
             ELSE [ok |-> FALSE, vs |-> <<>>]

\* one line of a material library; ls is [materials, mtl, hasMtl, err].
\* The guard of the source reads the head of the enclosing "mtllib" line,
\* which is never "#", so only blank lines are skipped.
LibLine(ls, line) ==
    LET words == Split(line) IN
    IF words = <<>> THEN ls
    ELSE IF words[1] = W("newmtl")
    THEN IF Len(words) < 2 THEN Fail(ls, "IndexError")
         ELSE [ls EXCEPT !.mtl = words[2], !.hasMtl = TRUE]
    ELSE IF words[1] = W("Kd")
    THEN IF ~ls.hasMtl THEN Fail(ls, "AssertionError")
         ELSE LET fs == Floats(Tail(words)) IN
              IF ~fs.ok THEN Fail(ls, "ValueError")
              ELSE [ls EXCEPT
                      !.materials = DictSet(ls.materials, ls.mtl,
                          VColor([i \in 1..Len(fs.vs) |-> Channel(fs.vs[i])])),
                      !.hasMtl = FALSE]
    ELSE ls

RECURSIVE LibLines(_, _)
LibLines(ls, lines) ==
    IF lines = <<>> \/ ls.err # "ok" THEN ls
    ELSE LibLines(LibLine(ls, Head(lines)), Tail(lines))

\* the body of "for libname in body" for the names from position i on
RECURSIVE LoadLibs(_, _, _)
LoadLibs(st, body, i) ==
    IF i > Len(body) \/ st.err # "ok" THEN st
    ELSE LET st1 == [st EXCEPT !.globals = DictSet(st.globals, K_mtllib, VList(body))]
         IN  IF ~LibExists(body[i]) THEN Fail(st1, "FileNotFoundError")
             ELSE LET ls == LibLines([materials |-> st1.materials, mtl |-> <<>>,
                                      hasMtl |-> FALSE, err |-> "ok"], LibContent)
                  IN  LoadLibs([st1 EXCEPT !.materials = ls.materials, !.err = ls.err],
                               body, i + 1)

LineKindMut(body) == IF Len(body) >= 2 THEN "wireframe" ELSE "line"

\* kind given by an "l" line with the given body
LineKind(body) == IF Len(body) > 2 THEN "wireframe" ELSE "line"

\* the geometry branches "p", "l", "f"
Geometry(st, head, body) ==
    IF ~st.active THEN Fail(st, "AssertionError")
    ELSE IF head = W("p")
    THEN IF body = <<>> THEN Fail(st, "IndexError")
         ELSE LET n == PyInt(body[1]) IN
              IF ~n.ok THEN Fail(st, "ValueError")
              ELSE [st EXCEPT !.cur.kind = "point",
                              !.cur.vertex_indexes = Append(@, n.v)]
    ELSE LET ns == Ints(body)
             kind == IF head = W("l") THEN LineKind(body) ELSE "polygon"
         IN  IF ~ns.ok THEN Fail(st, "ValueError")
             ELSE [st EXCEPT !.cur.kind = kind,
                             !.cur.vertex_indexes = @ \o ns.vs]

FinalizedMut(st) == st.active

\* an "o" line finishes the accumulator: it has a kind
Finalized(st) == st.active /\ st.cur.kind # "none"

\* one iteration of "for line in file"
ParseLine(st, line) ==
    LET words == Split(line) IN
    IF words = <<>> THEN st
    ELSE
    LET head == Head(words)
        body == Tail(words)
    IN
    IF head = W("#") THEN st
    ELSE IF head = W("mtllib") THEN LoadLibs(st, body, 1)
    ELSE IF head = W("v")
    THEN IF Len(body) < 2 THEN Fail(st, "ValueError")
         ELSE LET x == PyFloat(body[1])
                  y == PyFloat(body[2])
              IN  IF ~x.ok \/ ~y.ok THEN Fail(st, "ValueError")
                  ELSE [st EXCEPT !.vertices = Append(@, <<x.v, y.v>>)]
    ELSE IF head = W("o")
    THEN LET descs == IF Finalized(st)
                      THEN Append(st.descriptors, st.cur)
                      ELSE st.descriptors
         IN  IF body = <<>> THEN Fail(st, "IndexError")
             ELSE [st EXCEPT !.descriptors = descs,
                             !.cur = _ObjDescriptor(body[1], <<>>),
                             !.active = TRUE]
    ELSE IF head = W("usemtl")
    THEN IF ~st.active THEN Fail(st, "AssertionError")
         ELSE IF body = <<>> THEN Fail(st, "IndexError")
         ELSE IF ~DictHas(st.materials, body[1]) THEN Fail(st, "KeyError")
         ELSE [st EXCEPT !.cur.attributes =
                  DictSet(DictSet(@, K_usemtl, VStr(body[1])),
                          K_color, DictGet(st.materials, body[1]))]
    ELSE IF head \in {W("p"), W("l"), W("f")} THEN Geometry(st, head, body)
    ELSE st

RECURSIVE ParseLines(_, _)
ParseLines(st, lines) ==
    IF lines = <<>> \/ st.err # "ok" THEN st
    ELSE ParseLines(ParseLine(st, Head(lines)), Tail(lines))

FinishMut(st) ==
    IF st.err = "ok" /\ Finalized(st)
    THEN [st EXCEPT !.descriptors = Append(@, st.cur)]
    ELSE st

\* the accumulator is closed at the end of the file
Finish(st) ==
    IF st.err = "ok" /\ st.active
    THEN [st EXCEPT !.descriptors = Append(@, st.cur)]
    ELSE st

ParseStartMut ==
    [descriptors |-> <<>>,
     vertices |-> <<NoneVertex>>,
     globals |-> <<>>,
     materials |-> <<>>,
     cur |-> _ObjDescriptor(FileBase, <<>>),
     active |-> FALSE,
     err |-> "ok"]

ParseStart ==
    [descriptors |-> <<>>,
     vertices |-> <<NoneVertex>>,
     globals |-> <<>>,
     materials |-> <<>>,
     cur |-> _ObjDescriptor(FileBase, <<>>),
     active |-> TRUE,
     err |-> "ok"]

_parse_objs(lines) == Finish(ParseLines(ParseStart, lines))

(***************************************************************************)
(* _dump_objs.  The result is the text handed to file.write, as lines, and *)
(* the exception that ended the dump ("ok" if none); a line left           *)
(* unfinished by an exception is the last line.                            *)
(***************************************************************************)
\* iter_no_str(value): a str is one item, a list its items ("ok" FALSE:
\* the value is no str and its items cannot be concatenated with " ")
IterNoStr(v) ==
    IF v.t = "str" THEN [ok |-> TRUE, items |-> <<v.s>>]
    ELSE IF v.t = "list" THEN [ok |-> TRUE, items |-> v.l]
    ELSE [ok |-> FALSE, items |-> <<>>]

RECURSIVE SpacedItems(_)
SpacedItems(items) ==
    IF items = <<>> THEN <<>>
    ELSE Head(items) \o <<" ">> \o SpacedItems(Tail(items))

Emit(o, line) == [o EXCEPT !.lines = Append(@, line)]

\* file.write(key + " "); for val in iter_no_str(value): file.write(val + " ")
EmitItem(o, key, value) ==
    LET it == IterNoStr(value) IN
    IF it.ok THEN Emit(o, key \o <<" ">> \o SpacedItems(it.items))
    ELSE [lines |-> Append(o.lines, key \o <<" ">>), err |-> "TypeError"]

VertexLine(vertex) ==
    LET z == IF Len(vertex) > 2 THEN vertex[3] ELSE 10 IN
    JoinSp(<<W("v"), FmtFloat(vertex[1]), FmtFloat(vertex[2]), FmtFloat(z),
             FmtFloat(10)>>)

RECURSIVE EmitVertices(_, _)
EmitVertices(o, vs) ==
    IF vs = <<>> THEN o
    ELSE EmitVertices(Emit(o, VertexLine(Head(vs))), Tail(vs))

RECURSIVE EmitGlobals(_, _)
EmitGlobals(o, g) ==
    IF g = <<>> \/ o.err # "ok" THEN o
    ELSE EmitGlobals(EmitItem(o, Head(g).k, Head(g).v), Tail(g))

RECURSIVE EmitAttributes(_, _)
EmitAttributes(o, as) ==
    IF as = <<>> \/ o.err # "ok" THEN o
    ELSE IF Head(as).k \in {K_name, K_color} THEN EmitAttributes(o, Tail(as))
    ELSE EmitAttributes(EmitItem(o, Head(as).k, Head(as).v), Tail(as))

IndexWords(idx) == [i \in 1..Len(idx) |-> StrInt(idx[i])]

KindHeadMut(kind) ==
    CASE kind = "point" -> W("p")
      [] kind = "line" -> W("l")
      [] kind = "wireframe" -> W("l")
      [] kind = "polygon" -> W("l")

\* the head of the geometry line of a kind
KindHead(kind) ==
    CASE kind = "point" -> W("p")
      [] kind = "line" -> W("l")
      [] kind = "wireframe" -> W("l")
      [] kind = "polygon" -> W("f")

\* the geometry line of a descriptor
EmitGeometry(o, obj) ==
    IF obj.kind = "none" THEN [o EXCEPT !.err = "AttributeError"]
    ELSE IF obj.kind = "point"
    THEN IF obj.vertex_indexes = <<>> THEN [o EXCEPT !.err = "IndexError"]
         ELSE Emit(o, JoinSp(<<KindHead(obj.kind), StrInt(obj.vertex_indexes[1])>>))
    ELSE IF obj.kind = "line"
    THEN IF Len(obj.vertex_indexes) # 2 THEN [o EXCEPT !.err = "ValueError"]
         ELSE Emit(o, JoinSp(<<KindHead(obj.kind), StrInt(obj.vertex_indexes[1]),
                               StrInt(obj.vertex_indexes[2])>>))
    ELSE Emit(o, JoinSp(<<KindHead(obj.kind)>> \o IndexWords(obj.vertex_indexes)))

EmitObject(o, obj) ==
    LET o1 == Emit(o, W("o") \o <<" ">> \o DictGet(obj.attributes, K_name).s)
        o2 == EmitAttributes(o1, obj.attributes)
    IN  IF o2.err # "ok" THEN o2 ELSE EmitGeometry(o2, obj)

RECURSIVE EmitObjects(_, _)
EmitObjects(o, descs) ==
    IF descs = <<>> \/ o.err # "ok" THEN o
    ELSE EmitObjects(EmitObject(o, Head(descs)), Tail(descs))

_dump_objs(descs, verts, globs) ==
    LET o1 == EmitVertices([lines |-> <<>>, err |-> "ok"], Tail(verts))
        o2 == EmitGlobals(o1, globs)
    IN  IF o2.err # "ok" THEN o2 ELSE EmitObjects(o2, descs)

(***************************************************************************)
(* Drawables (module graphics): a variant and the points it enumerates.    *)
(* A point is the sequence of its two or three coordinates.                *)
(***************************************************************************)
Point(p) == [variant |-> "Point", pts |-> <<p>>]

Line(a, b) == [variant |-> "Line", pts |-> <<a, b>>]

Wireframe(points) == [variant |-> "Wireframe", pts |-> points]

Polygon(points) == [variant |-> "Polygon", pts |-> points]

\* the drawable of a descriptor without a kind
NoDrawable == [variant |-> "None", pts |-> <<>>]

\* for p in drawable
PointsOf(drawable) == drawable.pts

(***************************************************************************)
(* ObjFile                                                                 *)
(***************************************************************************)
ReadModes == {"r", "r+"}

WriteModes == {"w", "w+", "r+"}

CanReadMut(m) == m \in ReadModes \cup {"w+"}

\* the assertion of read()
CanRead(m) == m \in ReadModes

\* the assertion of write()
CanWrite(m) == m \in WriteModes

KindOfMut(drawable) ==
    CASE drawable.variant = "Point" -> "point"
      [] drawable.variant = "Line" -> "line"
      [] drawable.variant = "Polygon" -> "line"
      [] drawable.variant = "Wireframe" -> "wireframe"
      [] OTHER -> "none"

\* the kind _drawable_to_obj gives a drawable
KindOf(drawable) ==
    CASE drawable.variant = "Point" -> "point"
      [] drawable.variant = "Line" -> "line"
      [] drawable.variant = "Polygon" -> "polygon"
      [] drawable.variant = "Wireframe" -> "wireframe"
      [] OTHER -> "none"

\* registering that gives a point already in the table its old slot
RECURSIVE RegisterAllMut(_, _, _, _)
RegisterAllMut(verts, idx, pts, i) ==
    IF i > Len(pts) THEN [vertices |-> verts, vertex_indexes |-> idx]
    ELSE IF \E j \in 2..Len(verts) : verts[j] = pts[i]
    THEN RegisterAllMut(verts,
             Append(idx, (CHOOSE j \in 2..Len(verts) : verts[j] = pts[i]) - 1),
             pts, i + 1)
    ELSE LET vs == Append(verts, pts[i])
         IN  RegisterAllMut(vs, Append(idx, Len(vs) - 1), pts, i + 1)

\* "for p in drawable: append, index" from position i on
RECURSIVE RegisterAll(_, _, _, _)
RegisterAll(verts, idx, pts, i) ==
    IF i > Len(pts) THEN [vertices |-> verts, vertex_indexes |-> idx]
    ELSE LET vs == Append(verts, pts[i])
         IN  RegisterAll(vs, Append(idx, Len(vs) - 1), pts, i + 1)

LineIndexesMut(n) == <<n, n + 1>>

\* the indexes of a Line whose second point went to slot n
LineIndexes(n) == <<n - 1, n>>

\* [obj, vertices]: the descriptor and the vertex table after registering
_drawable_to_obj(verts, drawable, name, kwargs) ==
    LET pts == PointsOf(drawable)
        obj == [_ObjDescriptor(name, kwargs) EXCEPT !.kind = KindOf(drawable)]
    IN  IF drawable.variant = "Point"
        THEN LET vs == Append(verts, pts[1])
             IN  [obj |-> [obj EXCEPT !.vertex_indexes = <<Len(vs) - 1>>],
                  vertices |-> vs]
        ELSE IF drawable.variant = "Line"
        THEN LET vs == verts \o <<pts[1], pts[2]>>
                 n == Len(vs) - 1
             IN  [obj |-> [obj EXCEPT !.vertex_indexes = LineIndexes(n)],
                  vertices |-> vs]
        ELSE IF drawable.variant \in {"Wireframe", "Polygon"}
        THEN LET r == RegisterAll(verts, obj.vertex_indexes, pts, 1)
             IN  [obj |-> [obj EXCEPT !.vertex_indexes = r.vertex_indexes],
                  vertices |-> r.vertices]
        ELSE [obj |-> obj, vertices |-> verts]

\* self._vertices[i] followed by Point(*v)
Vertex(verts, i) ==
    IF ~PyInRange(verts, i) THEN [err |-> "IndexError", p |-> <<>>]
    ELSE IF PyGet(verts, i) = NoneVertex THEN [err |-> "TypeError", p |-> <<>>]
    ELSE [err |-> "ok", p |-> PyGet(verts, i)]

RECURSIVE Vertexes(_, _)
Vertexes(verts, idx) ==
    IF idx = <<>> THEN [err |-> "ok", ps |-> <<>>]
    ELSE LET v == Vertex(verts, Head(idx)) IN
         IF v.err # "ok" THEN [err |-> v.err, ps |-> <<>>]
         ELSE LET r == Vertexes(verts, Tail(idx)) IN
              IF r.err # "ok" THEN r ELSE [err |-> "ok", ps |-> <<v.p>> \o r.ps]

YieldMut(drawable, obj) ==
    [err |-> "ok", drawable |-> drawable, attributes |-> <<>>]

Yield(drawable, obj) ==
    [err |-> "ok", drawable |-> drawable, attributes |-> obj.attributes]

Raise(e) == [err |-> e, drawable |-> NoDrawable, attributes |-> <<>>]

_obj_to_drawable(verts, obj) ==
    IF obj.kind = "point"
    THEN IF Len(obj.vertex_indexes) < 1 THEN Raise("IndexError")
         ELSE LET v == Vertex(verts, obj.vertex_indexes[1]) IN
              IF v.err # "ok" THEN Raise(v.err) ELSE Yield(Point(v.p), obj)
    ELSE IF obj.kind = "line"
    THEN IF Len(obj.vertex_indexes) < 1 THEN Raise("IndexError")
         ELSE LET a == Vertex(verts, obj.vertex_indexes[1]) IN
              IF a.err # "ok" /\ a.err # "TypeError" THEN Raise(a.err)
              ELSE IF Len(obj.vertex_indexes) < 2 THEN Raise("IndexError")
              ELSE LET b == Vertex(verts, obj.vertex_indexes[2]) IN
                   IF b.err # "ok" /\ b.err # "TypeError" THEN Raise(b.err)
                   ELSE IF a.err # "ok" THEN Raise(a.err)
                   ELSE IF b.err # "ok" THEN Raise(b.err)
                   ELSE Yield(Line(a.p, b.p), obj)
    ELSE IF obj.kind \in {"wireframe", "polygon"}
    THEN LET r == Vertexes(verts, obj.vertex_indexes) IN
         IF r.err # "ok" THEN Raise(r.err)
         ELSE IF obj.kind = "polygon" THEN Yield(Polygon(r.ps), obj)
         ELSE Yield(Wireframe(r.ps), obj)
    ELSE Yield(NoDrawable, obj)

\* [obj for obj in self]: the pairs, or the first exception
RECURSIVE ReadFrom(_, _)
ReadFrom(verts, descs) ==
    IF descs = <<>> THEN [err |-> "ok", items |-> <<>>]
    ELSE LET y == _obj_to_drawable(verts, Head(descs)) IN
         IF y.err # "ok" THEN [err |-> y.err, items |-> <<>>]
         ELSE LET r == ReadFrom(verts, Tail(descs)) IN
              IF r.err # "ok" THEN r
              ELSE [err |-> "ok",
                    items |-> <<[drawable |-> y.drawable,
                                 attributes |-> y.attributes]>> \o r.items]

\* "for obj in self._descriptors: yield ..." consumed for at most n items:
\* the pairs yielded, and the exception that ended the generator, if any
RECURSIVE IterFrom(_, _, _)
IterFrom(verts, descs, n) ==
    IF n = 0 \/ descs = <<>> THEN [err |-> "ok", items |-> <<>>]
    ELSE LET y == _obj_to_drawable(verts, Head(descs)) IN
         IF y.err # "ok" THEN [err |-> y.err, items |-> <<>>]
         ELSE LET r == IterFrom(verts, Tail(descs), n - 1) IN
              [err |-> r.err,
               items |-> <<[drawable |-> y.drawable,
                            attributes |-> y.attributes]>> \o r.items]

DumpsOnCloseMut(m, descs) == m \in WriteModes

\* the condition of close() for running the serializer
DumpsOnClose(m, descs) == m \in WriteModes /\ Len(descs) > 0

\* the condition of __exit__() for running the serializer
DumpsOnExit(m, descs) == m \in WriteModes /\ Len(descs) > 0

(***************************************************************************)
(* open                                                                    *)
(***************************************************************************)
\* mode.lower() over the mode strings of the model
Lower(m) == CASE m = "R" -> "r" [] m = "W+" -> "w+" [] OTHER -> m

\* the tuple ('r', 'r+' 'w', 'w+'): adjacent literals are one string
AcceptedModes == {"r", "r+w", "w+"}

ModeAccepted(m) == Lower(m) \in AcceptedModes

\* the mode strings builtins.open takes, among those of the model
BuiltinModes == {"r", "r+", "w", "w+", "a"}

(***************************************************************************)
(* What callers hand to the session.                                       *)
(***************************************************************************)
PtA == <<0, 15>>
PtB == <<-10, 5>>
PtC == <<15, -10, 20>>      \* a point with a third coordinate

\* the point lists given to Wireframe and Polygon: A, B, A, B, ...
WirePts(n) == [i \in 1..n |-> IF i % 2 = 1 THEN PtA ELSE PtB]

Attr(k, v) == <<[k |-> k, v |-> v]>>

Item(drawable, name, attrs) == [drawable |-> drawable, name |-> name, attrs |-> attrs]

NoItem == Item(NoDrawable, <<>>, <<>>)

\* drawable, name and keyword arguments of write()
Inputs ==
    { Item(Point(PtA), <<"a">>, <<>>),
      Item(Point(PtC), <<"a">>, <<>>),
      Item(Line(PtA, PtB), <<"a">>, <<>>),
      Item(Line(PtA, PtB), <<"a", " ", "b">>, <<>>),
      Item(Polygon(WirePts(3)), <<"b">>,
           Attr(<<"layer">>, VStr(<<"3">>)) \o Attr(K_color, VColor(<<255, 0, 0>>))),
      Item(Polygon(WirePts(3)), <<"b">>, Attr(K_usemtl, VStr(<<"red">>))),
      Item(Polygon(WirePts(3)), <<"b">>, Attr(<<"width">>, VInt(2))) }
        \cup {Item(Wireframe(WirePts(n)), <<"a">>, <<>>) : n \in 1..MaxPts}

\* keyword arguments of open() / ObjFile() in the write modes
OpenKwargs == {<<>>, Attr(K_mtllib, VList(<<LibName>>))}

KwargsFor(m) == IF m \in ReadModes THEN {<<>>} ELSE OpenKwargs

\* mode strings handed to open()
OpenModes == {"r", "r+", "w", "w+", "r+w", "R", "a"}

\* the primary file before the first session
FileEmpty == <<>>

FileValid ==
    << JoinSp(<<W("v"), FmtFloat(0), FmtFloat(15)>>),
       JoinSp(<<W("v"), FmtFloat(-10), FmtFloat(5)>>),
       JoinSp(<<W("o"), W("a")>>),
       JoinSp(<<W("l"), StrInt(1), StrInt(2)>>) >>

FileBadIndex ==
    << JoinSp(<<W("v"), FmtFloat(0), FmtFloat(15)>>),
       JoinSp(<<W("o"), W("a")>>),
       JoinSp(<<W("p"), StrInt(1)>>),
       JoinSp(<<W("o"), W("b")>>),
       JoinSp(<<W("l"), StrInt(0), StrInt(2)>>) >>

InitialFiles == {FileEmpty, FileValid, FileBadIndex}

(***************************************************************************)
(* State.  One path, one ObjFile at a time.  An exception reaches the      *)
(* caller, which does not catch it: the run ends there.                    *)
(***************************************************************************)
VARIABLES
    disk,         \* the lines of the primary file
    sess,         \* "none", "open" (an ObjFile is in use), "closed"
    mode,         \* ObjFile.mode
    descriptors,  \* ObjFile._descriptors
    vertices,     \* ObjFile._vertices (slot 0 first)
    globals,      \* ObjFile._globals
    fileOpen,     \* the underlying file object is open
    fileLog,      \* what has been done to the underlying file object
    last,         \* the last call: operation, arguments, exception, result
    written,      \* the arguments of the write() calls of this ObjFile
    source,       \* the write session whose close produced the file, if any
    nWrites       \* write() calls that appended so far

vars == <<disk, sess, mode, descriptors, vertices, globals, fileOpen, fileLog,
          last, written, source, nWrites>>

Last(op, m, how, item, e, result) ==
    [op |-> op, mode |-> m, how |-> how, item |-> item, err |-> e, result |-> result]

\* "valid": the file is the stream a 'w' or 'w+' session left, "items" what
\* it appended; "seeded": the file is the stream an 'r+' session left,
\* "parsed" what that session had read from the file, "items" what it
\* appended
NoSource ==
    [valid |-> FALSE, seeded |-> FALSE, items |-> <<>>, globals |-> <<>>,
     parsed |-> [err |-> "ok", items |-> <<>>]]

Init ==
    /\ disk \in InitialFiles
    /\ sess = "none"
    /\ mode = ""
    /\ descriptors = <<>>
    /\ vertices = <<>>
    /\ globals = <<>>
    /\ fileOpen = FALSE
    /\ fileLog = <<>>
    /\ last = Last("init", "", "", NoItem, "ok", <<>>)
    /\ written = <<>>
    /\ source = NoSource
    /\ nWrites = 0

Running == last.err = "ok"

\* ObjFile.__init__(file, m, **kwargs) on a file with the given content:
\* the exception, the fields, and what was done to the file
ObjFileFields(m, kwargs, content) ==
    IF m \in ReadModes
    THEN LET st == _parse_objs(content) IN
         [err |-> st.err, descriptors |-> st.descriptors, vertices |-> st.vertices,
          globals |-> st.globals, log |-> <<"read">>]
    ELSE IF m \in {"w", "w+"}
    THEN [err |-> "ok", descriptors |-> <<>>, vertices |-> <<NoneVertex>>,
          globals |-> kwargs, log |-> <<>>]
    ELSE [err |-> "AssertionError", descriptors |-> <<>>, vertices |-> <<>>,
          globals |-> <<>>, log |-> <<>>]

\* what builtins.open(path, m) leaves in the file
Opened(m, content) == IF m \in {"w", "w+"} THEN <<>> ELSE content

\* ObjFile(builtins.open(path, m), m, **kwargs), for a mode m that
\* builtins.open takes
ObjFileInit(op, m, kwargs) ==
    \E f \in {ObjFileFields(m, kwargs, Opened(m, disk))} :
        /\ disk' = Opened(m, disk)
        /\ fileOpen' = TRUE
        /\ fileLog' = <<"open">> \o f.log
        /\ written' = <<>>
        /\ source' = IF Opened(m, disk) = disk THEN source ELSE NoSource
        /\ last' = Last(op, m, "", NoItem, f.err, <<>>)
        /\ sess' = IF f.err = "ok" THEN "open" ELSE "none"
        /\ mode' = IF f.err = "ok" THEN m ELSE ""
        /\ descriptors' = IF f.err = "ok" THEN f.descriptors ELSE <<>>
        /\ vertices' = IF f.err = "ok" THEN f.vertices ELSE <<>>
        /\ globals' = IF f.err = "ok" THEN f.globals ELSE <<>>
        /\ UNCHANGED nWrites

\* open(path, m, **kwargs)
Open(m, kwargs) ==
    /\ Running
    /\ sess # "open"
    /\ Len(disk) <= MaxLines
    /\ IF ~ModeAccepted(m)
       THEN /\ last' = Last("open", m, "", NoItem, "InvalidMode", <<>>)
            /\ UNCHANGED <<disk, sess, mode, descriptors, vertices, globals,
                           fileOpen, fileLog, written, source, nWrites>>
       ELSE IF m \notin BuiltinModes
       THEN /\ last' = Last("open", m, "", NoItem, "ValueError", <<>>)
            /\ UNCHANGED <<disk, sess, mode, descriptors, vertices, globals,
                           fileOpen, fileLog, written, source, nWrites>>
       ELSE ObjFileInit("open", m, kwargs)

\* a caller constructs ObjFile(builtins.open(path, m), m, **kwargs) itself
Construct(m, kwargs) ==
    /\ Running
    /\ sess # "open"
    /\ Len(disk) <= MaxLines
    /\ ObjFileInit("construct", m, kwargs)

\* ObjFile.read(): the exception and the list
read(m, verts, descs) ==
    IF CanRead(m) THEN ReadFrom(verts, descs)
    ELSE [err |-> "AssertionError", items |-> <<>>]

Read ==
    /\ Running
    /\ sess = "open"
    /\ \E r \in {read(mode, vertices, descriptors)} :
          last' = Last("read", mode, "", NoItem, r.err, r.items)
    /\ UNCHANGED <<disk, sess, mode, descriptors, vertices, globals, fileOpen,
                   fileLog, written, source, nWrites>>

\* ObjFile.write(drawable, name, **kwargs)
Write(item) ==
    /\ Running
    /\ sess = "open"
    /\ nWrites < MaxObjs
    /\ IF CanWrite(mode)
       THEN \E r \in {_drawable_to_obj(vertices, item.drawable, item.name, item.attrs)} :
                /\ descriptors' = Append(descriptors, r.obj)
                /\ vertices' = r.vertices
                /\ written' = Append(written, item)
                /\ nWrites' = nWrites + 1
                /\ last' = Last("write", mode, "", item, "ok", <<>>)
       ELSE /\ last' = Last("write", mode, "", item, "AssertionError", <<>>)
            /\ UNCHANGED <<descriptors, vertices, written, nWrites>>
    /\ UNCHANGED <<disk, sess, mode, globals, fileOpen, fileLog, source>>

\* the serializer, when dump holds, then the closing call on the file; an
\* exception of the serializer ends the caller before the closing call.
\* The result is the exception, the text written and the calls on the file.
Finished(dump, closing, descs, verts, globs) ==
    IF ~dump THEN [err |-> "ok", lines |-> <<>>, log |-> <<closing>>]
    ELSE LET out == _dump_objs(descs, verts, globs) IN
         IF out.err # "ok" THEN [err |-> out.err, lines |-> out.lines, log |-> <<"dump">>]
         ELSE [err |-> "ok", lines |-> out.lines, log |-> <<"dump", closing>>]

\* ObjFile.close()
close(m, descs, verts, globs) ==
    Finished(DumpsOnClose(m, descs), "close", descs, verts, globs)

\* ObjFile.__exit__(exc_type, exc_value, traceback), ending in file.__exit__
\* which closes the file
__exit__(m, descs, verts, globs) ==
    Finished(DumpsOnExit(m, descs), "__exit__", descs, verts, globs)

\* the file is closed by the calls "close" and "__exit__"
ClosedBy(log) == \E i \in 1..Len(log) : log[i] \in {"close", "__exit__"}

Finalize(op, how, f) ==
    /\ disk' = disk \o f.lines
    /\ fileLog' = fileLog \o f.log
    /\ fileOpen' = ~ClosedBy(f.log)
    /\ last' = Last(op, mode, how, NoItem,
                    IF f.err = "ok" /\ how = "raise" THEN "Propagated" ELSE f.err, <<>>)
    /\ source' = IF mode \in {"w", "w+"}
                 THEN [NoSource EXCEPT !.valid = f.err = "ok", !.items = written,
                                       !.globals = globals]
                 ELSE IF mode = "r" THEN source
                 ELSE [NoSource EXCEPT !.seeded = f.err = "ok", !.items = written,
                                       !.globals = globals,
                                       !.parsed = ReadFrom(vertices,
                                           SubSeq(descriptors, 1,
                                                  Len(descriptors) - Len(written)))]
    /\ sess' = "closed"
    /\ UNCHANGED <<mode, descriptors, vertices, globals, written, nWrites>>

Close ==
    /\ Running
    /\ sess = "open"
    /\ \E f \in {close(mode, descriptors, vertices, globals)} : Finalize("close", "", f)

\* the ways out of a "with" block: "return" is falling off its end or a
\* return inside it (__exit__ gets None, None, None either way), "raise" an
\* exception raised inside it, which goes on to the caller
ExitPaths == {"return", "raise"}

\* leaving "with ObjFile(...) as f:"
Exit(how) ==
    /\ Running
    /\ sess = "open"
    /\ \E f \in {__exit__(mode, descriptors, vertices, globals)} : Finalize("exit", how, f)

Next ==
    \/ \E m \in OpenModes : \E kw \in KwargsFor(m) : Open(m, kw)
    \/ \E m \in BuiltinModes : \E kw \in KwargsFor(m) : Construct(m, kw)
    \/ Read
    \/ \E item \in Inputs : Write(item)
    \/ Close
    \/ \E how \in ExitPaths : Exit(how)

Spec == Init /\ [][Next]_vars

(***************************************************************************)
(* The sessions on the streams of at most MaxStream lines: the primary     *)
(* file is written line by line, then opened 'r' (or 'w+', which empties   *)
(* it), iterated, read, appended to and closed.                            *)
(***************************************************************************)
StreamLines ==
    { JoinSp(<<W("v"), FmtFloat(0), FmtFloat(15)>>),
      JoinSp(<<W("o"), W("a")>>),
      JoinSp(<<W("p"), StrInt(1)>>),
      JoinSp(<<W("l"), StrInt(1), StrInt(-1)>>),
      JoinSp(<<W("f"), StrInt(1)>>),
      JoinSp(<<W("mtllib"), LibName>>),
      JoinSp(<<W("usemtl"), W("red")>>),
      JoinSp(<<W("usemtl"), W("blue")>>) }

InitStream == Init /\ disk = FileEmpty

\* a line is added to the primary file before any session
Feed(line) ==
    /\ sess = "none"
    /\ last.op = "init"
    /\ Len(disk) < MaxStream
    /\ disk' = Append(disk, line)
    /\ UNCHANGED <<sess, mode, descriptors, vertices, globals, fileOpen, fileLog,
                   last, written, source, nWrites>>

\* iter(f) consumed for n items: "for pair in f" left after the n-th
Iterate(n) ==
    /\ Running
    /\ sess = "open"
    /\ \E r \in {IterFrom(vertices, descriptors, n)} :
          last' = Last("iter", mode, "", NoItem, r.err, r.items)
    /\ UNCHANGED <<disk, sess, mode, descriptors, vertices, globals, fileOpen,
                   fileLog, written, source, nWrites>>

NextStream ==
    \/ \E line \in StreamLines : Feed(line)
    \/ \E m \in {"r", "w+"} : Open(m, <<>>)
    \/ \E n \in 1..(MaxStream + 1) : Iterate(n)
    \/ Read
    \/ \E item \in Inputs : Write(item)
    \/ Close

ParseSpec == InitStream /\ [][NextStream]_vars

(***************************************************************************)
(* Properties                                                              *)
(***************************************************************************)
FourModes == {"r", "r+", "w", "w+"}

\* C1: open(path, mode) takes exactly the modes 'r', 'r+', 'w' and 'w+' and
\* gives a session in the mode asked for; any other mode string fails with
\* an invalid-mode error and leaves the file unopened and untouched.
C1_OpenTakesFourModes ==
    [][last'.op = "open" =>
          IF last'.mode \in FourModes
          THEN /\ last'.err # "InvalidMode"
               /\ last'.err = "ok" => sess' = "open" /\ mode' = last'.mode
          ELSE /\ last'.err \in {"InvalidMode", "ValueError"}
               /\ UNCHANGED <<disk, fileOpen, fileLog, sess>>]_vars

\* C2: read() fails with the mode violation exactly in the sessions opened
\* 'w' or 'w+', and write() exactly in the sessions opened 'r', whatever was
\* done to the session before.
C2_ModeEnforcement ==
    /\ last.op = "read" => (last.err = "AssertionError" <=> last.mode \in {"w", "w+"})
    /\ last.op = "write" => (last.err = "AssertionError" <=> last.mode = "r")

\* a read() refused in a write-truncate session that already holds a descriptor
C2_Witness ==
    /\ last.op = "read"
    /\ last.mode = "w+"
    /\ last.err = "AssertionError"
    /\ Len(descriptors) > 0

\* the file is the stream left by a closed write session and is being read
\* back by a session opened 'r'
Reopened == last.op \in {"open", "construct"} /\ last.mode = "r" /\ source.valid

ReadBack == last.op = "read" /\ last.mode = "r" /\ source.valid

\* as many drawables, in the same order, of the same variant, with the same
\* points in the same order
SameGeometry(result, items) ==
    /\ Len(result) = Len(items)
    /\ \A i \in 1..Len(items) :
          /\ result[i].drawable.variant = items[i].drawable.variant
          /\ PointsOf(result[i].drawable) = PointsOf(items[i].drawable)

\* the stream is read back without exception and gives the geometry written
GeometryReadBack ==
    /\ Reopened => last.err = "ok"
    /\ ReadBack => last.err = "ok" /\ SameGeometry(last.result, source.items)

\* the source session wrote something, every time under a one-word name and
\* without attributes
BareSource ==
    /\ source.items # <<>>
    /\ \A i \in 1..Len(source.items) :
          /\ Split(source.items[i].name) = <<source.items[i].name>>
          /\ source.items[i].attrs = <<>>

DirectiveWords == {W("v"), W("o"), W("p"), W("l"), W("f"), W("usemtl"), W("mtllib")}

\* an argument list of write() whose text the parser reads back as written:
\* points of two coordinates, a Wireframe of three points or more, a name of
\* one blank-free word, attributes under keys that are no directive
PlainItem(item) ==
    /\ \A i \in 1..Len(item.drawable.pts) : Len(item.drawable.pts[i]) = 2
    /\ item.drawable.variant = "Wireframe" => Len(item.drawable.pts) >= 3
    /\ Split(item.name) = <<item.name>>
    /\ \A j \in 1..Len(item.attrs) :
          /\ Split(item.attrs[j].k) # <<>>
          /\ Head(Split(item.attrs[j].k)) \notin DirectiveWords

PlainSource ==
    /\ source.valid
    /\ source.items # <<>>
    /\ \A i \in 1..Len(source.items) : PlainItem(source.items[i])

AttributesKept(attributes, item) ==
    /\ DictHas(attributes, K_name)
    /\ DictGet(attributes, K_name) = VStr(item.name)
    /\ \A j \in 1..Len(item.attrs) :
          item.attrs[j].k # K_color =>
              /\ DictHas(attributes, item.attrs[j].k)
              /\ DictGet(attributes, item.attrs[j].k) = item.attrs[j].v
    /\ DictHas(attributes, K_color) => DictHas(attributes, K_usemtl)

\* C4: the name and the attributes given to write() come back from read() of
\* a session reopened 'r' on the closed stream; only "color" may differ.
C4_AttributeRoundTrip ==
    (ReadBack /\ last.err = "ok" /\ Len(last.result) = Len(source.items)) =>
        \A i \in 1..Len(source.items) :
            AttributesKept(last.result[i].attributes, source.items[i])

\* every index of the descriptor names a vertex of the table, slot 0 aside
InRange(obj) ==
    \A i \in 1..Len(obj.vertex_indexes) :
        obj.vertex_indexes[i] >= 1 /\ obj.vertex_indexes[i] <= Len(vertices) - 1

\* C5: in every session and every state, every vertex index of every
\* descriptor is at least 1 and at most the length of the vertex table.
C5_IndexesInRange ==
    sess \in {"open", "closed"} =>
        \A k \in 1..Len(descriptors) : InRange(descriptors[k])

\* the positions of the descriptors that write() added to this session
Appended == (Len(descriptors) - Len(written) + 1)..Len(descriptors)

\* C5 as amended: in every session and every state, every vertex index of
\* every descriptor that write() created is at least 1 and at most the
\* length of the vertex table (the parser stores the indexes of the stream
\* unchecked).
C5_AppendedIndexesInRange ==
    sess \in {"open", "closed"} =>
        \A k \in Appended : InRange(descriptors[k])

\* a read-write session holding a parsed descriptor with an index past the
\* table and an appended Line
C5_Witness ==
    /\ sess = "open"
    /\ mode = "r+"
    /\ last.op = "write"
    /\ last.item.drawable.variant = "Line"
    /\ \E k \in 1..Len(descriptors) : k \notin Appended /\ ~InRange(descriptors[k])

\* C6: write() on a write-capable session appends: the vertex table grows by
\* the points of the drawable, in their order, after the vertices it held;
\* one descriptor is added after the descriptors held; its indexes are the
\* slots of the vertices just added, whether or not an equal point was stored.
C6_WriteAppends ==
    [][last'.op = "write" =>
          LET pts == PointsOf(last'.item.drawable)
              n == Len(vertices)
              m == Len(descriptors)
          IN  /\ mode \in {"w", "w+", "r+"} => last'.err = "ok"
              /\ last'.err = "ok" =>
                    /\ Len(vertices') = n + Len(pts)
                    /\ SubSeq(vertices', 1, n) = vertices
                    /\ \A j \in 1..Len(pts) : vertices'[n + j] = pts[j]
                    /\ Len(descriptors') = m + 1
                    /\ SubSeq(descriptors', 1, m) = descriptors
                    /\ descriptors'[m + 1].vertex_indexes =
                           [j \in 1..Len(pts) |-> n + j - 1]]_vars

\* a second drawable appended, the table holding equal points in two slots
C6_Witness ==
    /\ last.op = "write"
    /\ last.err = "ok"
    /\ Len(written) = 2
    /\ \E i, j \in 2..Len(vertices) : i < j /\ vertices[i] = vertices[j]

\* what a call added to the log of the file
Added(before, after) == SubSeq(after, Len(before) + 1, Len(after))

\* C7: close() runs the serializer exactly when the session is write-capable
\* and holds a descriptor, and runs it before it closes the file; without
\* the serializer nothing is written, so a write session that appended
\* nothing leaves the file as it was.
C7_SerializerAtClose ==
    [][last'.op = "close" =>
          /\ Added(fileLog, fileLog') \in {<<"close">>, <<"dump">>, <<"dump", "close">>}
          /\ Head(Added(fileLog, fileLog')) = "dump"
                <=> (mode \in {"w", "w+", "r+"} /\ Len(descriptors) > 0)
          /\ Head(Added(fileLog, fileLog')) # "dump" => disk' = disk
          /\ (mode \in {"w", "w+"} /\ written = <<>>) => disk' = disk]_vars

\* a write-truncate session with a descriptor, serialized and then closed
C7_Witness ==
    /\ last.op = "close"
    /\ last.mode = "w+"
    /\ Len(descriptors) > 0
    /\ fileLog = <<"open", "dump", "close">>

Count(log, e) == Cardinality({i \in 1..Len(log) : log[i] = e})

\* C8: after close(), returned or raised, the file has been closed, once.
C8_CloseClosesFile ==
    last.op = "close" => ~fileOpen /\ Count(fileLog, "close") = 1

\* C9: leaving the scope of "with" does what close() does: the serializer
\* runs under the condition of close() and writes the same text, and the
\* file ends up closed.
C9_ScopeExit ==
    /\ sess = "open" =>
          /\ __exit__(mode, descriptors, vertices, globals).err
                = close(mode, descriptors, vertices, globals).err
          /\ __exit__(mode, descriptors, vertices, globals).lines
                = close(mode, descriptors, vertices, globals).lines
    /\ last.op = "exit" =>
          /\ Count(fileLog, "dump") = 1
                <=> (mode \in {"w", "w+", "r+"} /\ Len(descriptors) > 0)
          /\ ~fileOpen

\* the kind the parser gives a fresh object on reading the line
ParsedKind(line) == ParseLine(ParseStart, line).cur.kind

\* the kinds the parser gives by the head and the indexes of a line
ParseClassifies(line) ==
    LET words == Split(line)
        st == ParseLine(ParseStart, line)
    IN  (words # <<>> /\ st.err = "ok") =>
            /\ Head(words) = W("p") => st.cur.kind = "point"
            /\ (Head(words) = W("l") /\ Len(words) = 3) => st.cur.kind = "line"
            /\ (Head(words) = W("l") /\ Len(words) > 3) => st.cur.kind = "wireframe"
            /\ Head(words) = W("f") => st.cur.kind = "polygon"

\* the geometry line the serializer writes for a descriptor
GeometryOut(obj) == EmitGeometry([lines |-> <<>>, err |-> "ok"], obj)

\* the letter of a kind
LetterOf(kind) ==
    CASE kind = "point" -> W("p")
      [] kind = "polygon" -> W("f")
      [] OTHER -> W("l")

\* the line the serializer writes for the descriptor, if it writes one,
\* starts with the letter of the descriptor's kind and parses to kind
WrittenAs(obj, kind) ==
    LET out == GeometryOut(obj) IN
    out.err = "ok" =>
        /\ Head(Split(out.lines[1])) = LetterOf(obj.kind)
        /\ ParsedKind(out.lines[1]) = kind

\* the descriptors of the session, where the session has just got one
Held ==
    IF sess = "open" /\ last.op \in {"open", "construct", "write"}
    THEN 1..Len(descriptors) ELSE {}

\* the lines the parser has just read, where a session has just been opened
Parsed ==
    IF last.op \in {"open", "construct"} /\ CanRead(last.mode) THEN disk ELSE <<>>

\* C10: the parser gives Point for "p", Line for "l" with two indexes,
\* Wireframe for "l" with more, Polygon for "f"; the serializer writes "p",
\* "l", "l", "f" for Point, Line, Wireframe, Polygon; and the line written
\* for a descriptor the session holds parses back to the descriptor's kind
\* (checked on the lines of every file a session reads, and on every
\* descriptor of a session after each open and each write).
C10_Classification ==
    /\ \A i \in 1..Len(Parsed) : ParseClassifies(Parsed[i])
    /\ \A k \in Held : WrittenAs(descriptors[k], descriptors[k].kind)

\* a Wireframe descriptor of fewer than three indexes
ShortWireframe(obj) == obj.kind = "wireframe" /\ Len(obj.vertex_indexes) < 3

\* C10 as amended: as C10, but the line written for a descriptor parses back
\* to the descriptor's kind unless the descriptor is a Wireframe of fewer
\* than three indexes, whose "l" line parses back as a Line.
C10_ClassificationByArity ==
    /\ \A i \in 1..Len(Parsed) : ParseClassifies(Parsed[i])
    /\ \A k \in Held :
          WrittenAs(descriptors[k],
                    IF ShortWireframe(descriptors[k]) THEN "line"
                    ELSE descriptors[k].kind)

\* a session reading a file of a Line and a Wireframe of three points
C10_Witness ==
    /\ sess = "open"
    /\ mode = "r"
    /\ \E k \in 1..Len(descriptors) :
          descriptors[k].kind = "wireframe" /\ Len(descriptors[k].vertex_indexes) = 3
    /\ \E k \in 1..Len(descriptors) : descriptors[k].kind = "line"
    /\ \E i \in 1..Len(disk) : Head(Split(disk[i])) = W("l") /\ Len(Split(disk[i])) = 3

\* the first word of a line of a stream
HeadOf(line) == IF Split(line) = <<>> THEN <<>> ELSE Head(Split(line))

\* a session has just been opened on the stream, which the parser has read
JustParsed == last.op \in {"open", "construct"} /\ last.mode \in ReadModes

\* the stream holds "v" lines and geometry lines only
OnlyGeometry(lines) ==
    \A i \in 1..Len(lines) : HeadOf(lines[i]) \in {W("v"), W("p"), W("l"), W("f")}

\* C11: a stream of "v" lines and geometry lines without an "o" line parses
\* into exactly one descriptor, whose name is the base name of the file.
C11_ImplicitObject ==
    (JustParsed /\ OnlyGeometry(disk)) =>
        /\ last.err = "ok"
        /\ Len(descriptors) = 1
        /\ DictGet(descriptors[1].attributes, K_name) = VStr(FileBase)

\* a stream of a vertex and two geometry lines, parsed
C11_Witness ==
    /\ JustParsed
    /\ OnlyGeometry(disk)
    /\ Len(disk) = 3
    /\ HeadOf(disk[1]) = W("v")
    /\ HeadOf(disk[2]) = W("p")
    /\ HeadOf(disk[3]) = W("l")
    /\ Len(descriptors) = 1

\* the material library defines the name: "newmtl <name>" followed by "Kd"
Defines(name) ==
    \E i \in 1..(Len(LibContent) - 1) :
        /\ Split(LibContent[i]) = <<W("newmtl"), name>>
        /\ Head(Split(LibContent[i + 1])) = W("Kd")

\* a "mtllib" line before line i names the material library
LoadedBefore(lines, i) ==
    \E j \in 1..(i - 1) :
        /\ HeadOf(lines[j]) = W("mtllib")
        /\ \E k \in 2..Len(Split(lines[j])) : Split(lines[j])[k] = LibName

\* the stream ends in a "usemtl" line, and the lines before it parse
EndsInUsemtl ==
    /\ JustParsed
    /\ disk # <<>>
    /\ HeadOf(disk[Len(disk)]) = W("usemtl")
    /\ Len(Split(disk[Len(disk)])) = 2
    /\ _parse_objs(SubSeq(disk, 1, Len(disk) - 1)).err = "ok"

\* C12: "usemtl <name>" succeeds exactly when a library loaded by an earlier
\* "mtllib" line defines <name>; the current object then has "usemtl" <name>
\* and the colour recorded for it ((255, 0, 0) for Kd 1.0 0.0 0.0); otherwise
\* the parse fails on the unknown material (a KeyError) and gives no session.
C12_MaterialResolution ==
    EndsInUsemtl =>
        LET name == Split(disk[Len(disk)])[2] IN
        IF Defines(name) /\ LoadedBefore(disk, Len(disk))
        THEN /\ last.err = "ok"
             /\ descriptors # <<>>
             /\ LET attributes == descriptors[Len(descriptors)].attributes IN
                /\ DictHas(attributes, K_usemtl)
                /\ DictGet(attributes, K_usemtl) = VStr(name)
                /\ DictHas(attributes, K_color)
                /\ name = W("red") => DictGet(attributes, K_color) = VColor(<<255, 0, 0>>)
        ELSE /\ last.err = "KeyError"
             /\ sess = "none"

\* "usemtl red" resolved after "mtllib m.mtl", in an object of its own
C12_Witness ==
    /\ EndsInUsemtl
    /\ last.err = "ok"
    /\ Split(disk[Len(disk)])[2] = W("red")
    /\ LoadedBefore(disk, Len(disk))
    /\ Len(descriptors) = 2
    /\ DictGet(descriptors[2].attributes, K_color) = VColor(<<255, 0, 0>>)

\* the variant of the drawable built for a kind
VariantFor(kind) ==
    CASE kind = "point" -> "Point"
      [] kind = "line" -> "Line"
      [] kind = "wireframe" -> "Wireframe"
      [] kind = "polygon" -> "Polygon"
      [] OTHER -> "None"

\* the pair is the one of the descriptor: its attributes, and the drawable
\* of its kind built from the vertices its indexes name
PairOf(pair, verts, obj) ==
    /\ pair.attributes = obj.attributes
    /\ pair.drawable.variant = VariantFor(obj.kind)
    /\ pair.drawable = _obj_to_drawable(verts, obj).drawable
    /\ obj.kind \in {"wireframe", "polygon"} =>
          Len(PointsOf(pair.drawable)) = Len(obj.vertex_indexes)

\* C13: iterating the session, for some items or for all of them, yields the
\* pairs of the descriptors, one each and in the order of the list (all of
\* them when read() returns), leaves the descriptor list, the vertex table
\* and the globals as they were, and yields the same again when repeated.
C13_IterationFrame ==
    [][last'.op \in {"iter", "read"} =>
          /\ descriptors' = descriptors
          /\ vertices' = vertices
          /\ globals' = globals
          /\ Len(last'.result) <= Len(descriptors)
          /\ \A i \in 1..Len(last'.result) :
                PairOf(last'.result[i], vertices, descriptors[i])
          /\ (last'.op = "read" /\ last'.err = "ok") =>
                Len(last'.result) = Len(descriptors)
          /\ last'.err = "ok" =>
                IterFrom(vertices', descriptors', Len(last'.result)).items
                    = last'.result]_vars

\* an iteration left after the first of two descriptors
C13_Witness ==
    /\ last.op = "iter"
    /\ last.err = "ok"
    /\ Len(last.result) = 1
    /\ Len(descriptors) = 2
    /\ last.result[1].drawable.variant = "Point"

Kinds == {"point", "line", "wireframe", "polygon"}

\* the serializer has run in the session that close() or the scope exit ended
Serialized == last.op \in {"close", "exit"} /\ Count(fileLog, "dump") > 0

\* C14: whenever the serializer runs, at close() or at a scope exit of a
\* write-capable session, every descriptor of the session has its kind set.
C14_KindSetAtSerialization ==
    Serialized => \A k \in 1..Len(descriptors) : descriptors[k].kind \in Kinds

\* the places of the "o" lines of a stream, from line i on
RECURSIVE ObjectLines(_, _)
ObjectLines(lines, i) ==
    IF i > Len(lines) THEN <<>>
    ELSE (IF HeadOf(lines[i]) = W("o") THEN <<i>> ELSE <<>>) \o ObjectLines(lines, i + 1)

\* the sections of a stream: section 0 is the lines before the first "o"
\* line, under the name of the file; section k the lines after the k-th "o"
\* line and before the next, under the name the "o" line gives
Section(lines, k) ==
    LET os == ObjectLines(lines, 1) IN
    [name |-> IF k = 0 THEN FileBase ELSE Split(lines[os[k]])[2],
     from |-> IF k = 0 THEN 1 ELSE os[k] + 1,
     to |-> IF k = Len(os) THEN Len(lines) ELSE os[k + 1] - 1]

IsGeometry(line) == HeadOf(line) \in {W("p"), W("l"), W("f")}

\* the places of the geometry lines of a section
GeometryLines(lines, sec) == {i \in sec.from..sec.to : IsGeometry(lines[i])}

\* the sections that give a descriptor, in the order of the stream: those
\* with a geometry line, and the last
RECURSIVE Kept(_, _)
Kept(lines, k) ==
    LET n == Len(ObjectLines(lines, 1)) IN
    IF k > n THEN <<>>
    ELSE (IF k = n \/ GeometryLines(lines, Section(lines, k)) # {}
          THEN <<k>> ELSE <<>>) \o Kept(lines, k + 1)

\* the number of indexes a kind asks for
ArityOK(obj) ==
    /\ obj.kind = "point" => Len(obj.vertex_indexes) = 1
    /\ obj.kind = "line" => Len(obj.vertex_indexes) = 2
    /\ obj.kind \in {"wireframe", "polygon"} => Len(obj.vertex_indexes) >= 3

\* C15: every descriptor a session holds, parsed or appended, has the number
\* of indexes of its kind: 1 for Point, 2 for Line, 3 or more for Wireframe
\* and Polygon.
C15_Arity ==
    sess = "open" => \A k \in 1..Len(descriptors) : ArityOK(descriptors[k])

\* a geometry line with the number of indexes of the kind it gives
ArityLine(line) ==
    LET n == Len(Split(line)) - 1 IN
    CASE HeadOf(line) = W("p") -> n = 1
      [] HeadOf(line) = W("l") -> n >= 2
      [] HeadOf(line) = W("f") -> n >= 3
      [] OTHER -> FALSE

\* a section with one geometry line, of the arity of its kind
OneGeometry(lines, sec) ==
    /\ Cardinality(GeometryLines(lines, sec)) = 1
    /\ \A i \in GeometryLines(lines, sec) : ArityLine(lines[i])

\* a drawable with the number of points of its variant
ArityDrawable(drawable) ==
    CASE drawable.variant = "Point" -> Len(drawable.pts) = 1
      [] drawable.variant = "Line" -> Len(drawable.pts) = 2
      [] OTHER -> Len(drawable.pts) >= 3

\* C15 as amended: a descriptor has the number of indexes of its kind if
\* append built it from a drawable with the number of points of its variant
\* (a Wireframe or Polygon of three points or more), or if the parser built
\* it from a section of the stream with exactly one geometry line, that line
\* having one index after "p", two or more after "l", three or more after
\* "f".  Neither the parser nor append checks the number.
C15_ArityOfWellFormed ==
    /\ sess = "open" =>
          \A j \in 1..Len(written) :
              ArityDrawable(written[j].drawable) =>
                  ArityOK(descriptors[Len(descriptors) - Len(written) + j])
    /\ (JustParsed /\ last.err = "ok") =>
          LET kept == Kept(disk, 0) IN
          /\ Len(kept) = Len(descriptors)
          /\ \A k \in 1..Len(kept) :
                OneGeometry(disk, Section(disk, kept[k])) => ArityOK(descriptors[k])

\* a parsed Polygon of three indexes next to a parsed Point, each from a
\* section of one geometry line
C15_Witness ==
    /\ JustParsed
    /\ last.err = "ok"
    /\ Len(descriptors) = 2
    /\ descriptors[1].kind = "point"
    /\ descriptors[2].kind = "polygon"
    /\ Len(descriptors[2].vertex_indexes) = 3
    /\ \A k \in 1..2 : OneGeometry(disk, Section(disk, Kept(disk, 0)[k]))

\* the indexes a geometry line adds to the accumulator: the first after "p",
\* all after "l" and "f"
LineAdds(line) ==
    LET ws == Split(line) IN
    IF Head(ws) = W("p") THEN <<PyInt(ws[2]).v>>
    ELSE [j \in 1..(Len(ws) - 1) |-> PyInt(ws[j + 1]).v]

\* the indexes of the geometry lines of lines i..to, in their order
RECURSIVE SectionIndexes(_, _, _)
SectionIndexes(lines, i, to) ==
    IF i > to THEN <<>>
    ELSE (IF IsGeometry(lines[i]) THEN LineAdds(lines[i]) ELSE <<>>)
             \o SectionIndexes(lines, i + 1, to)

\* the descriptor is the accumulator of the section: its name, the indexes
\* of its geometry lines, and a kind exactly if it has a geometry line
OfSection(obj, lines, sec) ==
    /\ DictGet(obj.attributes, K_name) = VStr(sec.name)
    /\ obj.vertex_indexes = SectionIndexes(lines, sec.from, sec.to)
    /\ obj.kind = "none" <=> GeometryLines(lines, sec) = {}

\* C16: an "o" line appends the accumulator to the descriptor list exactly
\* if it has a kind and starts a fresh one under its name; the end of the
\* stream appends the accumulator in any case.  So the list holds, in the
\* order of the stream, the accumulators that got a geometry line before
\* the next "o" line, and then the last accumulator, with or without a kind.
C16_Finalization ==
    (JustParsed /\ last.err = "ok") =>
        LET kept == Kept(disk, 0) IN
        /\ Len(descriptors) = Len(kept)
        /\ kept[Len(kept)] = Len(ObjectLines(disk, 1))
        /\ \A k \in 1..Len(kept) :
              OfSection(descriptors[k], disk, Section(disk, kept[k]))

\* a stream of three sections: the first with a geometry line, the second
\* without, the last without: two descriptors, the last without a kind
C16_Witness ==
    /\ JustParsed
    /\ last.err = "ok"
    /\ Len(ObjectLines(disk, 1)) = 2
    /\ Kept(disk, 0) = <<0, 2>>
    /\ Len(descriptors) = 2
    /\ descriptors[1].kind # "none"
    /\ descriptors[2].kind = "none"

\* an index of the descriptor names no vertex of the table: 0, a negative
\* index, or one past the last vertex
Unresolved(obj) ==
    \E i \in 1..Len(obj.vertex_indexes) :
        obj.vertex_indexes[i] < 1 \/ obj.vertex_indexes[i] > Len(vertices) - 1

\* C17: a stream with an index that names no vertex parses; the failure
\* comes when the descriptor is translated, and only then: an iteration
\* that ends without failure has translated no such descriptor, one that
\* fails has yielded the descriptors before and fails at such a descriptor,
\* and read() fails exactly if the list holds such a descriptor.
C17_LazyIndexFailure ==
    /\ JustParsed => last.err \in {"ok", "KeyError"}
    /\ (last.op = "iter" /\ last.err = "ok") =>
          \A k \in 1..Len(last.result) : ~Unresolved(descriptors[k])
    /\ (last.op = "iter" /\ last.err # "ok") =>
          /\ \A k \in 1..Len(last.result) : ~Unresolved(descriptors[k])
          /\ Unresolved(descriptors[Len(last.result) + 1])
    /\ (last.op = "read" /\ CanRead(mode)) =>
          (last.err # "ok" <=> \E k \in 1..Len(descriptors) : Unresolved(descriptors[k]))

\* the file is the stream a closed 'r+' session left, whose parsed objects
\* translate, and has been read by a session opened 'r'
SeededReadBack ==
    /\ last.op = "read"
    /\ last.mode = "r"
    /\ source.seeded
    /\ source.parsed.err = "ok"

\* the first two coordinates of the points, which the stream keeps
Flat(pts) == [i \in 1..Len(pts) |-> SubSeq(pts[i], 1, 2)]

\* C18: the stream an 'r+' session leaves at close, reopened 'r', reads as
\* the objects the session had parsed followed by the objects it appended,
\* each once and with its own points.
C18_ReadThenAppend ==
    SeededReadBack =>
        LET old == source.parsed.items
            new == source.items
        IN  /\ last.err = "ok"
            /\ Len(last.result) = Len(old) + Len(new)
            /\ \A i \in 1..Len(old) :
                  i <= Len(last.result) => last.result[i].drawable = old[i].drawable
            /\ \A j \in 1..Len(new) :
                  Len(old) + j <= Len(last.result) =>
                      /\ last.result[Len(old) + j].drawable.variant
                            = new[j].drawable.variant
                      /\ PointsOf(last.result[Len(old) + j].drawable)
                            = Flat(PointsOf(new[j].drawable))

\* C19: an exception of the parser leaves no session and no descriptor list,
\* and an exception of the serializer at close() or at a scope exit leaves
\* the file without any of the text of the failed serialization.
C19_NoPartialResults ==
    [][/\ (last'.op \in {"open", "construct"} /\ last'.err # "ok") =>
              sess' = "none" /\ descriptors' = <<>>
       /\ (last'.op \in {"close", "exit"} /\ last'.err \notin {"ok", "Propagated"}) =>
              disk' = disk]_vars

\* the parser after the first n lines of the stream
ParsedTo(lines, n) == ParseLines(ParseStart, SubSeq(lines, 1, n))

\* C20: before the first line and after every line of a stream the parser
\* has an accumulator, so no "usemtl", "p", "l" or "f" line fails for want
\* of one (the AssertionError of "assert current_obj is not None").
C20_AccumulatorAlways ==
    JustParsed =>
        /\ \A n \in 0..Len(disk) :
              /\ ParsedTo(disk, n).active
              /\ ParsedTo(disk, n).err # "AssertionError"
        /\ last.err # "AssertionError"

\* a stream whose first line is a geometry line and whose second a "usemtl"
\* line, both before any "o" line, parsed
C20_Witness ==
    /\ JustParsed
    /\ last.err = "ok"
    /\ Len(disk) >= 3
    /\ HeadOf(disk[1]) = W("mtllib")
    /\ IsGeometry(disk[2])
    /\ HeadOf(disk[3]) = W("usemtl")
    /\ ObjectLines(disk, 1) = <<>>

====
